---------------------------- MODULE Spec2Model ----------------------------
(***************************************************************************)
(* A model of humlab/amazon-scraper: the retry combinator (utility.py),    *)
(* the selector gate and the readiness gate (scrape_utility.py), the       *)
(* dotted-path resolver and the environment overlay                        *)
(* (configuration/utility.py), the deferred configuration value            *)
(* (configuration/inject.py), the search pipeline (amazon_scraper.py) and  *)
(* the workflow around it (workflow.py).                                   *)
(*                                                                         *)
(* Each component has its own specification over the shared variables; a  *)
(* component that a specification does not exercise stays at Off.          *)
(***************************************************************************)
EXTENDS Integers, Sequences, FiniteSets, TLC

VARIABLES retry, gate, path, store, dv, listing, run, reviews, flow, readiness

vars == <<retry, gate, path, store, dv, listing, run, reviews, flow, readiness>>

\* The value of a component's variable in a specification that does not use it.
Off == [pc |-> "off"]

(***************************************************************************)
(* Python values.  Scalars are modelled by name: "None" is None, "zero"    *)
(* is 0, "empty" is the empty string, "false" is False; every other name   *)
(* is a non-empty string.                                                  *)
(***************************************************************************)
Falsy == {"None", "zero", "empty", "false"}

(***************************************************************************)
(*                        RETRY COMBINATOR                                 *)
(***************************************************************************)

\* Largest attempt bound explored.
MaxTimes == 3

\* times: the attempt bound of retry(times, ...); 0 and -1 are legal ints.
RetryTimes == -1 .. MaxTimes

\* default: None (not supplied), a falsy value, a truthy value.
RetryDefaults == {"None", "zero", "default"}

\* sleep: seconds between attempts (0 disables the sleep).
RetrySleeps == {0, 1}

\* What one invocation of the wrapped operation does: it returns, raises an
\* exception matching the `exceptions` filter, or raises another exception.
CallOutcomes == {"ok", "match", "other"}

FilterCatchesAll(outcome) == outcome # "ok"

\* utility.py:44  `except exceptions`: the filter catches what matches it.
FilterCatches(outcome) == outcome = "match"

\* A loop that is entered once more than the bound allows.
RetryLoopGuardInclusive(attempt, times) == attempt <= times

\* utility.py:41  `while attempt < times`
RetryLoopGuard(attempt, times) == attempt < times

\* A loop that gives up one attempt early.
AttemptsExhaustedEarly(attempt, times) == attempt >= times - 1

\* utility.py:52  `if attempt == times`
AttemptsExhausted(attempt, times) == attempt = times

\* A truthiness test where the code tests identity with None.
ReraiseWhenFalsy(default) == default \in Falsy

\* utility.py:54  `if default is None: raise`
ReraiseOnExhaustion(default) == default = "None"

\* utility.py:39-40  fx is entered: attempt = 0, nothing called yet.
RetryInit ==
    /\ \E t \in RetryTimes, d \in RetryDefaults, s \in RetrySleeps :
        retry = [pc |-> "running", times |-> t, default |-> d, sleep |-> s,
                 attempt |-> 0, calls |-> 0, sleeps |-> 0,
                 hist |-> << >>, log |-> << >>, value |-> "None"]
    /\ gate = Off /\ path = Off /\ store = Off /\ dv = Off /\ listing = Off /\ run = Off /\ reviews = Off /\ flow = Off /\ readiness = Off

\* utility.py:42-43  the wrapped operation returns: fx returns its value.
RetryCallReturns ==
    /\ retry.pc = "running"
    /\ RetryLoopGuard(retry.attempt, retry.times)
    /\ retry' = [retry EXCEPT !.calls = @ + 1,
                              !.hist = Append(@, "ok"),
                              !.pc = "returned",
                              !.value = "success"]
    /\ UNCHANGED <<gate, path, store, dv, listing, run, reviews, flow, readiness>>

\* utility.py:44  an exception outside the filter is not caught by
\* `except exceptions` and leaves fx at once.
RetryCallRaisesOther ==
    /\ retry.pc = "running"
    /\ RetryLoopGuard(retry.attempt, retry.times)
    /\ ~FilterCatches("other")
    /\ retry' = [retry EXCEPT !.calls = @ + 1,
                              !.hist = Append(@, "other"),
                              !.pc = "raised",
                              !.value = "other"]
    /\ UNCHANGED <<gate, path, store, dv, listing, run, reviews, flow, readiness>>

\* utility.py:44-58  the wrapped operation raises an exception of the filter.
RetryCallRaisesMatch ==
    /\ retry.pc = "running"
    /\ RetryLoopGuard(retry.attempt, retry.times)
    /\ \E o \in {"match", "other"} :
        /\ FilterCatches(o)
        /\ LET warned == Append(retry.log, <<"warning", retry.attempt, retry.times>>)
               next == retry.attempt + 1
               r0 == [retry EXCEPT !.calls = @ + 1,
                                   !.hist = Append(@, o),
                                   !.attempt = next]
           IN  IF AttemptsExhausted(next, retry.times)
                 THEN IF ReraiseOnExhaustion(retry.default)
                        THEN retry' = [r0 EXCEPT
                                 !.log = Append(warned, <<"error", next, retry.times>>),
                                 !.pc = "raised", !.value = o]
                        ELSE retry' = [r0 EXCEPT
                                 !.log = Append(warned, <<"error", next, retry.times>>),
                                 !.pc = "returned", !.value = retry.default]
                 ELSE retry' = [r0 EXCEPT
                                 !.log = warned,
                                 !.sleeps = IF retry.sleep # 0 THEN @ + 1 ELSE @]
    /\ UNCHANGED <<gate, path, store, dv, listing, run, reviews, flow, readiness>>

\* utility.py:41,59  the loop guard is false: `return default`.
RetryFallsThrough ==
    /\ retry.pc = "running"
    /\ ~RetryLoopGuard(retry.attempt, retry.times)
    /\ retry' = [retry EXCEPT !.pc = "returned", !.value = retry.default]
    /\ UNCHANGED <<gate, path, store, dv, listing, run, reviews, flow, readiness>>

RetryNext ==
    \/ RetryCallReturns
    \/ RetryCallRaisesOther
    \/ RetryCallRaisesMatch
    \/ RetryFallsThrough

SpecRetry == RetryInit /\ [][RetryNext]_vars

\* hist is n matching failures and nothing else.
AllMatch(h) == \A i \in 1 .. Len(h) : h[i] = "match"

\* hist is k matching failures followed by one success.
FailsThenSucceeds(h) ==
    /\ Len(h) >= 1
    /\ h[Len(h)] = "ok"
    /\ \A i \in 1 .. Len(h) - 1 : h[i] = "match"

\* C1: with times >= 1, an operation that raises a filter-matching exception
\* on its first k calls (0 <= k < times) and then succeeds is invoked exactly
\* k+1 times and the wrapped call returns its success value: the call is
\* still running after every one of the k failures, and has returned the
\* operation's value after call k+1.
C1_FailThenSucceed ==
    retry.pc # "off" /\ retry.times >= 1 =>
        /\ (AllMatch(retry.hist) /\ Len(retry.hist) < retry.times =>
                retry.pc = "running" /\ retry.calls = Len(retry.hist))
        /\ (FailsThenSucceeds(retry.hist) =>
                /\ Len(retry.hist) - 1 < retry.times
                /\ retry.pc = "returned"
                /\ retry.value = "success"
                /\ retry.calls = Len(retry.hist))

C1_Witness ==
    /\ retry.pc = "returned"
    /\ retry.times = 3
    /\ retry.hist = <<"match", "match", "ok">>
    /\ retry.value = "success"
    /\ retry.calls = 3

C20_OtherPropagatesAtOnce ==
    retry.pc # "off" =>
        \A i \in 1 .. Len(retry.hist) :
            retry.hist[i] = "other" =>
                /\ i = Len(retry.hist)
                /\ retry.calls = i
                /\ retry.pc = "raised" /\ retry.value = "other"
                /\ retry.attempt = i - 1
                /\ retry.sleeps = IF retry.sleep # 0 THEN i - 1 ELSE 0
                /\ Len(retry.log) = i - 1

\* With times = 3, a sleep and a default, the first call raised a matching
\* exception and the second a non-matching one.
C20_Witness ==
    /\ retry.pc = "raised"
    /\ retry.times = 3 /\ retry.sleep = 1 /\ retry.default = "default"
    /\ retry.hist = <<"match", "other">>
    /\ retry.value = "other"
    /\ retry.attempt = 1 /\ retry.sleeps = 1

\* C30: with an attempt bound times <= 0 the wrapped operation is never
\* called and nothing is logged; the call does not raise and returns the
\* default, None when none was supplied.
C30_NoAttemptsReturnsDefault ==
    retry.times <= 0 =>
        /\ retry.calls = 0 /\ retry.hist = << >>
        /\ retry.log = << >>
        /\ retry.sleeps = 0
        /\ retry.pc # "raised"
        /\ retry.pc = "returned" => retry.value = retry.default

\* A call with a negative bound and no default has returned None.
C30_Witness ==
    /\ retry.times < 0
    /\ retry.default = "None"
    /\ retry.pc = "returned"
    /\ retry.value = "None"
    /\ retry.calls = 0

(***************************************************************************)
(*                          SELECTOR GATE                                  *)
(***************************************************************************)

\* Longest candidate list explored.
MaxCandidates == 2

\* Largest wait timeout (seconds) explored.
MaxTimeout == 3

\* The locators that a configuration may name.
Selectors == {"A", "B", "C"}

\* All sequences over S of length at most n.
RECURSIVE SeqsUpTo(_, _)
SeqsUpTo(S, n) ==
    IF n = 0 THEN {<< >>}
    ELSE LET shorter == SeqsUpTo(S, n - 1)
         IN  shorter \cup {Append(q, x) : q \in shorter, x \in S}

\* What the configuration holds for selectors.<key>: nothing, one locator
\* string, or a list of locators (possibly empty).
GateConfigs ==
    {[kind |-> "none", sels |-> << >>]}
    \cup {[kind |-> "str", sels |-> <<x>>] : x \in Selectors}
    \cup {[kind |-> "list", sels |-> q] : q \in SeqsUpTo(Selectors, MaxCandidates)}

\* scrape_utility.py:75-78, 109-112  `if not config: return` and
\* `if isinstance(config, str): config = [config]`: the candidate list.
Candidates(config) == config.sels

\* scrape_utility.py:75, 109  `not config`
NoCandidates(config) == Len(Candidates(config)) = 0

\* scrape_utility.py:84, 117  item.find_element(by, selector) finds an
\* element exactly when the scope currently holds one for the selector;
\* otherwise it raises NoSuchElementException.
SelectorMatches(selector, dom) == selector \in dom

\* A walk that does not stop at the first match: the last match wins.
RECURSIVE FindWalkLastMatch(_, _, _, _)
FindWalkLastMatch(cands, dom, i, acc) ==
    IF i > Len(cands) THEN acc
    ELSE FindWalkLastMatch(cands, dom, i + 1,
            [tried |-> Append(acc.tried, i),
             element |-> IF SelectorMatches(cands[i], dom)
                           THEN cands[i] ELSE acc.element])

\* scrape_utility.py:82-91  the walk over the candidates from index i on:
\* the first selector that finds an element returns it; a selector that
\* raises NoSuchElementException is skipped; None when all are skipped.
\* acc.tried lists the indexes attempted.
RECURSIVE FindWalk(_, _, _, _)
FindWalk(cands, dom, i, acc) ==
    IF i > Len(cands) THEN acc
    ELSE IF SelectorMatches(cands[i], dom)
           THEN [tried |-> Append(acc.tried, i), element |-> cands[i]]
           ELSE FindWalk(cands, dom, i + 1,
                         [tried |-> Append(acc.tried, i), element |-> "None"])

NoWalk == [tried |-> << >>, element |-> "None"]

\* A poll loop that stops one iteration short.
WaitLoopGuardShort(iter, timeout) == iter < timeout - 1

\* scrape_utility.py:114  `for _ in range(0, timeout)`
WaitLoopGuard(iter, timeout) == iter < timeout

\* Some candidate has an element in the scope.
AnyMatch(config, dom) ==
    \E i \in 1 .. Len(Candidates(config)) : SelectorMatches(Candidates(config)[i], dom)

\* find_element or wait_element is entered with a configuration, a scope
\* and (for find) the outcome the readiness gate will have.
GateInit ==
    /\ \E op \in {"find", "wait"}, c \in GateConfigs, d \in SUBSET Selectors,
          r \in {"complete", "no_session", "timeout"}, t \in 0 .. MaxTimeout :
        /\ op = "find" => t = 0
        /\ op = "wait" => r = "complete"
        /\ gate = [pc |-> op, op |-> op, config |-> c, dom |-> d, ready |-> r,
                   timeout |-> t, iter |-> 0, elapsed |-> 0,
                   tried |-> << >>, result |-> "None",
                   ever |-> AnyMatch(c, d), everAtPoll |-> FALSE]
    /\ retry = Off /\ path = Off /\ store = Off /\ dv = Off /\ listing = Off /\ run = Off /\ reviews = Off /\ flow = Off /\ readiness = Off

\* scrape_utility.py:63-91  find_element
FindElement ==
    /\ gate.pc = "find"
    /\ IF NoCandidates(gate.config)
         THEN gate' = [gate EXCEPT !.pc = "returned", !.result = "None"]
       ELSE IF gate.ready = "no_session"
         \* scrape_utility.py:54-56  wait_page_ready raises ValueError
         THEN gate' = [gate EXCEPT !.pc = "raised", !.result = "ValueError"]
       ELSE IF gate.ready = "timeout"
         \* scrape_utility.py:59-60  wait_page_ready raises TimeoutError
         THEN gate' = [gate EXCEPT !.pc = "raised", !.result = "TimeoutError"]
       ELSE LET w == FindWalk(Candidates(gate.config), gate.dom, 1, NoWalk)
            IN  gate' = [gate EXCEPT !.pc = "returned",
                                     !.tried = w.tried,
                                     !.result = w.element]
    /\ UNCHANGED <<retry, path, store, dv, listing, run, reviews, flow, readiness>>

\* scrape_utility.py:106-110  wait_element with nothing configured returns.
WaitNothingConfigured ==
    /\ gate.pc = "wait"
    /\ NoCandidates(gate.config)
    /\ gate' = [gate EXCEPT !.pc = "returned"]
    /\ UNCHANGED <<retry, path, store, dv, listing, run, reviews, flow, readiness>>

\* scrape_utility.py:111-114  wait_element enters its poll loop.
WaitEnter ==
    /\ gate.pc = "wait"
    /\ ~NoCandidates(gate.config)
    /\ gate' = [gate EXCEPT !.pc = "poll"]
    /\ UNCHANGED <<retry, path, store, dv, listing, run, reviews, flow, readiness>>

\* scrape_utility.py:114-120  one iteration of the poll loop: every
\* candidate is tried in order; the first that finds an element returns.
WaitPoll ==
    /\ gate.pc = "poll"
    /\ WaitLoopGuard(gate.iter, gate.timeout)
    /\ LET w == FindWalk(Candidates(gate.config), gate.dom, 1, NoWalk)
       IN  gate' = [gate EXCEPT
                      !.pc = IF w.element # "None" THEN "returned" ELSE "sleep",
                      !.tried = w.tried,
                      !.result = w.element,
                      !.everAtPoll = @ \/ AnyMatch(gate.config, gate.dom)]
    /\ UNCHANGED <<retry, path, store, dv, listing, run, reviews, flow, readiness>>

\* The page changes while wait_element sleeps: elements appear or vanish.
DomChanges ==
    /\ gate.pc = "sleep"
    /\ \E d \in SUBSET Selectors :
        /\ d # gate.dom
        /\ gate' = [gate EXCEPT !.dom = d,
                                !.ever = @ \/ AnyMatch(gate.config, d)]
    /\ UNCHANGED <<retry, path, store, dv, listing, run, reviews, flow, readiness>>

\* scrape_utility.py:121  time.sleep(1) ends; the loop goes round.
WaitSleep ==
    /\ gate.pc = "sleep"
    /\ gate' = [gate EXCEPT !.pc = "poll",
                            !.iter = @ + 1,
                            !.elapsed = @ + 1]
    /\ UNCHANGED <<retry, path, store, dv, listing, run, reviews, flow, readiness>>

\* scrape_utility.py:123  the loop is exhausted: NoSuchElementException.
WaitRaises ==
    /\ gate.pc = "poll"
    /\ ~WaitLoopGuard(gate.iter, gate.timeout)
    /\ gate' = [gate EXCEPT !.pc = "raised", !.result = "NoSuchElementException"]
    /\ UNCHANGED <<retry, path, store, dv, listing, run, reviews, flow, readiness>>

GateNext ==
    \/ FindElement
    \/ WaitNothingConfigured
    \/ WaitEnter
    \/ WaitPoll
    \/ DomChanges
    \/ WaitSleep
    \/ WaitRaises

SpecGate == GateInit /\ [][GateNext]_vars

\* The index of the first candidate with an element in the scope, 0 if none.
FirstMatching(cands, dom) ==
    IF \E i \in 1 .. Len(cands) : cands[i] \in dom
      THEN CHOOSE i \in 1 .. Len(cands) :
             /\ cands[i] \in dom
             /\ \A j \in 1 .. i - 1 : cands[j] \notin dom
      ELSE 0

\* C3: find tries the configured candidates in their configured order, each
\* at most once, and returns the element of the first candidate that
\* matches, stopping there; when no candidate matches it returns not-found
\* (None).  The only errors find raises come from the readiness gate that
\* runs before the walk, never from a candidate that does not match.
C3_FindFirstMatch ==
    gate.pc \in {"returned", "raised"} /\ gate.op = "find" =>
        LET cands == Candidates(gate.config)
            k == FirstMatching(cands, gate.dom)
        IN  /\ \A i \in 1 .. Len(gate.tried) : gate.tried[i] = i
            /\ Len(gate.tried) <= Len(cands)
            /\ (gate.pc = "raised" =>
                    /\ gate.ready # "complete"
                    /\ gate.tried = << >>
                    /\ gate.result \in {"ValueError", "TimeoutError"})
            /\ (gate.ready = "complete" \/ NoCandidates(gate.config) =>
                    gate.pc = "returned")
            /\ (gate.pc = "returned" /\ k > 0 =>
                    gate.result = cands[k] /\ Len(gate.tried) = k)
            /\ (gate.pc = "returned" /\ k = 0 =>
                    gate.result = "None" /\ Len(gate.tried) = Len(cands))

C3_Witness ==
    /\ gate.op = "find"
    /\ gate.pc = "returned"
    /\ gate.config = [kind |-> "list", sels |-> <<"A", "B">>]
    /\ gate.dom = {"B"}
    /\ gate.result = "B"
    /\ gate.tried = <<1, 2>>

\* C4 as stated, for a timeout of at least one second: if a candidate
\* matches at any point within the timeout window, wait does not raise (it
\* returns instead).
C4_ReturnsIfEverMatched ==
    gate.op = "wait" /\ gate.timeout >= 1 /\ gate.pc = "raised" => ~gate.ever

\* C4 as amended: wait never raises before `timeout` seconds have elapsed;
\* it polls at seconds 0, 1, ..., timeout-1 and returns as soon as a
\* candidate matches at one of these polls; it raises the element-not-found
\* error once `timeout` seconds have elapsed if no poll saw a match.  A match
\* that is present only between two polls or after the last one is not seen.
C4_WaitPolls ==
    gate.pc # "off" /\ gate.op = "wait" /\ ~NoCandidates(gate.config) =>
        /\ (gate.pc = "raised" =>
                /\ gate.elapsed >= gate.timeout
                /\ gate.result = "NoSuchElementException"
                /\ ~gate.everAtPoll)
        /\ (gate.everAtPoll =>
                /\ gate.pc = "returned"
                /\ gate.elapsed < gate.timeout
                /\ gate.result # "None")
        /\ (gate.pc = "returned" => gate.everAtPoll)
        /\ (gate.pc \in {"poll", "sleep"} => gate.elapsed <= gate.timeout)

C4_Witness ==
    /\ gate.op = "wait"
    /\ gate.pc = "returned"
    /\ gate.timeout = 3
    /\ gate.elapsed = 2
    /\ gate.result = "B"

C4_WitnessRaise ==
    /\ gate.op = "wait"
    /\ gate.pc = "raised"
    /\ gate.timeout = 3
    /\ gate.elapsed = 3
    /\ ~gate.ever

(***************************************************************************)
(*                          READINESS GATE                                 *)
(*                                                                         *)
(* wait_page_ready(item) walks from item along .parent to the WebDriver    *)
(* that owns it and then waits for document.readyState.  An ownership      *)
(* chain is `elements` WebElements, the first being the item, followed by  *)
(* its end: the WebDriver, an object without a parent attribute, or a link *)
(* from the last element back to the element at index `back`.              *)
(***************************************************************************)
MaxChain == 12

\* scrape_utility.py:33  `if depth > 10`
HopLimit == 10

Chains ==
    [elements : 0 .. MaxChain, end : {"driver", "noparent"}, back : {0}]
    \cup {c \in [elements : 1 .. MaxChain, end : {"cycle"},
                 back : 0 .. MaxChain - 1] : c.back < c.elements}

\* What stands at position i of the chain.
KindAt(chain, i) ==
    IF i < chain.elements THEN "element" ELSE chain.end

\* item.parent for the WebElement at position i.
ParentOf(chain, i) ==
    IF i = chain.elements - 1 /\ chain.end = "cycle" THEN chain.back ELSE i + 1

\* A depth test that lets one more owner be looked at.
HopExceededLate(depth) == depth > HopLimit + 1

\* scrape_utility.py:33  `depth > 10`
HopExceeded(depth) == depth > HopLimit

ReadyInit ==
    /\ \E chain \in Chains :
        readiness = [pc |-> "walking", chain |-> chain, item |-> 0, depth |-> 0,
                 examined |-> 0, polls |-> 0, error |-> "None"]
    /\ retry = Off /\ gate = Off /\ path = Off /\ store = Off /\ dv = Off
    /\ listing = Off /\ run = Off /\ reviews = Off /\ flow = Off

\* scrape_utility.py:23-39  one call of find_webdriver_parent(item, depth).
WalkStep ==
    /\ readiness.pc = "walking"
    /\ readiness' =
        IF HopExceeded(readiness.depth)
          THEN [readiness EXCEPT !.pc = "not found"]
        ELSE IF KindAt(readiness.chain, readiness.item) = "driver"
          THEN [readiness EXCEPT !.pc = "found", !.examined = @ + 1]
        ELSE IF KindAt(readiness.chain, readiness.item) = "element"
          THEN [readiness EXCEPT !.item = ParentOf(readiness.chain, readiness.item),
                             !.depth = @ + 1, !.examined = @ + 1]
        ELSE [readiness EXCEPT !.pc = "not found", !.examined = @ + 1]
    /\ UNCHANGED <<retry, gate, path, store, dv, listing, run, reviews, flow>>

\* scrape_utility.py:54-56  no WebDriver found: ValueError.
RaiseNotFound ==
    /\ readiness.pc = "not found"
    /\ readiness' = [readiness EXCEPT !.pc = "raised", !.error = "ValueError"]
    /\ UNCHANGED <<retry, gate, path, store, dv, listing, run, reviews, flow>>

\* scrape_utility.py:57-60  WebDriverWait(item, 30).until(readyState is
\* complete): returns, or TimeoutError when the wait times out.
WaitReadyState ==
    /\ readiness.pc = "found"
    /\ \E outcome \in {"complete", "timeout"} :
        readiness' = [readiness EXCEPT
            !.pc = outcome, !.polls = @ + 1,
            !.error = IF outcome = "timeout" THEN "TimeoutError" ELSE "None"]
    /\ UNCHANGED <<retry, gate, path, store, dv, listing, run, reviews, flow>>

ReadyNext == WalkStep \/ RaiseNotFound \/ WaitReadyState

SpecReady == ReadyInit /\ [][ReadyNext]_vars

\* The call runs on: every step of wait_page_ready that can be taken is
\* taken.
SpecReadyFair == SpecReady /\ WF_vars(ReadyNext)

\* wait_page_ready has returned or raised.
ReadyEnded == readiness.pc \in {"raised", "complete", "timeout"}

\* The WebDriver is at most HopLimit parent links away from the item.
SessionWithinLimit(chain) ==
    chain.end = "driver" /\ chain.elements <= HopLimit

\* C24: wait_page_ready ends its ownership walk on every chain, cyclic and
\* longer than the limit included, having looked at the item and at most
\* HopLimit owners above it; it raises the ValueError of the walk exactly
\* when no WebDriver stands within HopLimit parent links of the item, and
\* then it has never asked for document.readyState.
C24_WalkSafe ==
    /\ readiness.examined <= HopLimit + 1
    /\ ReadyEnded =>
        ((readiness.pc = "raised") <=> ~SessionWithinLimit(readiness.chain))
    /\ readiness.pc = "raised" => readiness.polls = 0 /\ readiness.error = "ValueError"

C24_AwaitReadyTerminates == [] C24_WalkSafe /\ <> ReadyEnded

\* The walk went round a cycle of elements, gave up and raised without any
\* wait for the page.
C24_Witness ==
    /\ readiness.pc = "raised"
    /\ readiness.chain.end = "cycle"
    /\ readiness.examined = HopLimit + 1
    /\ readiness.polls = 0

(***************************************************************************)
(*                          PATH RESOLVER                                  *)
(*                                                                         *)
(* A Python string is a sequence of one-character strings, so that         *)
(* replace and split are computed as str.replace and str.split compute     *)
(* them.  A nested mapping is a function from key paths (sequences of      *)
(* keys, the keys on the way from the root) to values; the value "dict"    *)
(* marks a nested dict, whose entries are the key paths extending it.      *)
(***************************************************************************)

\* Most comma-separated alternatives in one path argument.
MaxAlts == 2

Str_a == <<"a">>
Str_b == <<"b">>
Str_a_b == <<"a", "_", "b">>

\* The values a configuration document stores under a key: null, 0, "",
\* false, and a non-empty string.
StoredValues == {"None", "zero", "empty", "false", "v1"}

\* The nested mappings explored: key a absent, a scalar, or a dict with or
\* without b; key a_b absent or a scalar.
MapsOfA ==
    {<< >>}
    \cup {<<Str_a>> :> v : v \in StoredValues}
    \cup {<<Str_a>> :> "dict"}
    \cup {(<<Str_a>> :> "dict") @@ (<<Str_a, Str_b>> :> v) : v \in StoredValues}

MapsOfAB == {<< >>} \cup {<<Str_a_b>> :> v : v \in StoredValues}

Mappings == {x @@ y : x \in MapsOfA, y \in MapsOfAB}

\* str.replace(c, r) for a one-character c.
RECURSIVE Replace(_, _, _)
Replace(s, c, r) ==
    IF s = << >> THEN << >>
    ELSE (IF Head(s) = c THEN r ELSE <<Head(s)>>) \o Replace(Tail(s), c, r)

\* str.split(c) for a one-character c: always at least one piece, and an
\* empty piece between adjacent separators.
RECURSIVE Split(_, _)
Split(s, c) ==
    IF s = << >> THEN << << >> >>
    ELSE LET rest == Split(Tail(s), c)
         IN  IF Head(s) = c
               THEN << << >> >> \o rest
               ELSE << <<Head(s)>> \o Head(rest) >> \o Tail(rest)

Contains(s, c) == \E i \in 1 .. Len(s) : s[i] = c

\* An expansion that knows only the '.' reading of ':'.
RECURSIVE ExpandPiecesDotOnly(_)
ExpandPiecesDotOnly(pieces) ==
    IF pieces = << >> THEN << >>
    ELSE LET p == Head(pieces)
             these == IF p = << >> THEN << >>
                      ELSE IF Contains(p, ":")
                        THEN << Replace(p, ":", <<".">>) >>
                        ELSE <<p>>
         IN  these \o ExpandPiecesDotOnly(Tail(pieces))

\* An expansion that tries the '_' reading of ':' before the '.' reading.
RECURSIVE ExpandPiecesUnderscoreFirst(_)
ExpandPiecesUnderscoreFirst(pieces) ==
    IF pieces = << >> THEN << >>
    ELSE LET p == Head(pieces)
             these == IF p = << >> THEN << >>
                      ELSE IF Contains(p, ":")
                        THEN << Replace(p, ":", <<"_">>), Replace(p, ":", <<".">>) >>
                        ELSE <<p>>
         IN  these \o ExpandPiecesUnderscoreFirst(Tail(pieces))

\* configuration/utility.py:72-78  the loop of dotexpand over the pieces.
RECURSIVE ExpandPieces(_)
ExpandPieces(pieces) ==
    IF pieces = << >> THEN << >>
    ELSE LET p == Head(pieces)
             these == IF p = << >> THEN << >>
                      ELSE IF Contains(p, ":")
                        THEN << Replace(p, ":", <<".">>), Replace(p, ":", <<"_">>) >>
                        ELSE <<p>>
         IN  these \o ExpandPieces(Tail(pieces))

\* configuration/utility.py:62-79  dotexpand
DotExpand(p) == ExpandPieces(Split(Replace(p, " ", << >>), ","))

\* A lookup that treats every falsy value as missing.
IsMissingWhenFalsy(v) == v \in Falsy

\* configuration/utility.py:100,102  `d is None`
IsMissing(v) == v = "None"

\* configuration/utility.py:98-101  the walk over the attrs of one expanded
\* key from the dict at key path `at`: the value reached, "None" if the walk
\* breaks off.
RECURSIVE Walk(_, _, _)
Walk(data, attrs, at) ==
    IF attrs = << >> THEN (IF at = << >> THEN "dict" ELSE data[at])
    ELSE LET isdict == at = << >> \/ data[at] = "dict"
             child == Append(at, Head(attrs))
             d == IF isdict /\ child \in DOMAIN data THEN data[child] ELSE "None"
         IN  IF IsMissing(d) THEN "None" ELSE Walk(data, Tail(attrs), child)

\* configuration/utility.py:96-104  the loop of dotget over expanded keys.
RECURSIVE DotGetKeys(_, _, _)
DotGetKeys(data, keys, default) ==
    IF keys = << >> THEN default
    ELSE LET d == Walk(data, Split(Head(keys), "."), << >>)
         IN  IF ~IsMissing(d) THEN d ELSE DotGetKeys(data, Tail(keys), default)

\* configuration/utility.py:82-104  dotget
DotGet(data, p, default) == DotGetKeys(data, DotExpand(p), default)

\* configuration/utility.py:38-44  the loop of dget over its path
\* arguments, and `return d or default`.
RECURSIVE DGetPaths(_, _, _)
DGetPaths(data, ps, default) ==
    IF ps = << >> THEN default
    ELSE LET d == DotGet(data, Head(ps), "None")
         IN  IF d # "None" THEN d
             ELSE IF Tail(ps) = << >>
               THEN (IF d \in Falsy THEN default ELSE d)
               ELSE DGetPaths(data, Tail(ps), default)

\* configuration/utility.py:21-44  dget(data, *path, default)
DGet(data, ps, default) ==
    IF DOMAIN data = {} THEN default ELSE DGetPaths(data, ps, default)

\* configuration/utility.py:47-59  dotexists(data, *paths)
DotExists(data, ps) ==
    \E i \in 1 .. Len(ps) : DotGet(data, ps[i], "@@") # "@@"

\* The alternatives a path argument is built from.
PathAlts ==
    { <<"a">>, <<"b">>, <<"a", ".", "b">>, <<"a", "_", "b">>, <<"a", ":", "b">>,
      <<" ", "a", ".", "b">>, << >> }

\* s1,s2,...: the alternatives joined by commas.
RECURSIVE JoinWith(_, _)
JoinWith(ss, c) ==
    IF ss = << >> THEN << >>
    ELSE IF Tail(ss) = << >> THEN Head(ss)
    ELSE Head(ss) \o <<c>> \o JoinWith(Tail(ss), c)

PathStrings ==
    {JoinWith(q, ",") : q \in SeqsUpTo(PathAlts, MaxAlts) \ {<< >>}}

\* The key paths whose three spellings are compared.
KeyPaths == {<<Str_a>>, <<Str_b>>, <<Str_a, Str_b>>, <<Str_b, Str_a>>}

PathDefaults == {"None", "dflt"}

PathInit ==
    /\ \E m \in Mappings, d \in PathDefaults :
        path = [pc |-> "ready", data |-> m, default |-> d,
                path |-> << >>, result |-> "None",
                keys |-> << >>, dot |-> "None", underscore |-> "None",
                colon |-> "None", exists |-> FALSE]
    /\ retry = Off /\ gate = Off /\ store = Off /\ dv = Off /\ listing = Off /\ run = Off /\ reviews = Off /\ flow = Off /\ readiness = Off

\* resolve_path(mapping, path, default): dget with one path argument.
ResolvePath ==
    /\ path.pc = "ready"
    /\ \E p \in PathStrings :
        path' = [path EXCEPT !.pc = "resolved",
                             !.path = p,
                             !.result = DGet(path.data, <<p>>, path.default)]
    /\ UNCHANGED <<retry, gate, store, dv, listing, run, reviews, flow, readiness>>

\* resolve_path on the three spellings of one key path.
ResolveSpellings ==
    /\ path.pc = "ready"
    /\ \E ks \in KeyPaths :
        path' = [path EXCEPT
            !.pc = "spelled",
            !.keys = ks,
            !.dot = DGet(path.data, <<JoinWith(ks, ".")>>, path.default),
            !.underscore = DGet(path.data, <<JoinWith(ks, "_")>>, path.default),
            !.colon = DGet(path.data, <<JoinWith(ks, ":")>>, path.default)]
    /\ UNCHANGED <<retry, gate, store, dv, listing, run, reviews, flow, readiness>>

\* path_exists(mapping, path): dotexists with one path argument.
PathExists ==
    /\ path.pc = "ready"
    /\ \E p \in PathStrings :
        path' = [path EXCEPT !.pc = "checked",
                             !.path = p,
                             !.exists = DotExists(path.data, <<p>>)]
    /\ UNCHANGED <<retry, gate, store, dv, listing, run, reviews, flow, readiness>>

PathNext == ResolvePath \/ ResolveSpellings \/ PathExists

SpecPath == PathInit /\ [][PathNext]_vars

\* The key paths that the comma-separated path p names, in the order they
\* are tried: each alternative as written, an alternative with ':' once
\* with '.' and once with '_' for it; each split at its dots.
NamedKeyPaths(p) ==
    LET keys == DotExpand(p)
    IN  [i \in 1 .. Len(keys) |-> Split(keys[i], ".")]

\* The key path is a key of the mapping (whatever it stores).
Present(data, kp) == kp \in DOMAIN data

\* The key path is a key of the mapping and stores something other than null.
PresentNonNull(data, kp) == kp \in DOMAIN data /\ data[kp] # "None"

\* C5 as stated: resolve_path returns the default if and only if none of the
\* expanded alternative paths reaches a present key (the default "dflt" is
\* no stored value, so returning it is observable).
C5_DefaultIffAbsent ==
    path.pc = "resolved" /\ path.default = "dflt" =>
        LET kps == NamedKeyPaths(path.path)
        IN  (path.result = "dflt") <=>
                ~\E i \in 1 .. Len(kps) : Present(path.data, kps[i])

\* C5 as amended: resolve_path returns the default if and only if none of
\* the expanded alternative paths reaches a key that stores a value other
\* than null; otherwise it returns the value of the first expanded path that
\* does, so a stored 0, empty string or false is returned as that value and
\* never replaced by the default.  A key that stores null is treated as
\* missing.
C5_DefaultIffNoValue ==
    path.pc = "resolved" =>
        LET kps == NamedKeyPaths(path.path)
            hits == {i \in 1 .. Len(kps) : PresentNonNull(path.data, kps[i])}
        IN  IF hits = {}
              THEN path.result = path.default
              ELSE LET first == CHOOSE i \in hits : \A j \in hits : i <= j
                   IN  path.result = path.data[kps[first]]

C5_Witness ==
    /\ path.pc = "resolved"
    /\ path.path = <<"a", ":", "b">>
    /\ path.default = "dflt"
    /\ <<Str_a_b>> \in DOMAIN path.data
    /\ path.data[<<Str_a_b>>] = "zero"
    /\ path.result = "zero"

\* No key of the mapping has an underscore: nesting is by dicts only.
NestedStyle(data) ==
    \A kp \in DOMAIN data : \A i \in 1 .. Len(kp) : ~Contains(kp[i], "_")

\* No value of the mapping is a dict: nesting is by underscored keys only.
FlatStyle(data) == \A kp \in DOMAIN data : data[kp] # "dict"

\* C6 as stated: on a mapping of one consistent key style, resolve_path
\* returns the same value for the '.', the '_' and the ':' spelling of a key
\* path.
C6_SameForAllSeparators ==
    path.pc = "spelled" /\ (NestedStyle(path.data) \/ FlatStyle(path.data)) =>
        path.dot = path.underscore /\ path.underscore = path.colon

\* C6 as amended: the ':' spelling of a key path returns the same value as
\* its '.' spelling on a mapping nested by dicts, and the same value as its
\* '_' spelling on a flat mapping with underscored keys.  The '.' and '_'
\* spellings are not interchangeable: '_' is no separator, so on a nested
\* mapping the '_' spelling of a path of two or more keys returns the
\* default, as does the '.' spelling on a flat mapping.
C6_ColonCoversBothStyles ==
    path.pc = "spelled" =>
        /\ (NestedStyle(path.data) =>
                /\ path.colon = path.dot
                /\ (Len(path.keys) >= 2 => path.underscore = path.default))
        /\ (FlatStyle(path.data) =>
                /\ path.colon = path.underscore
                /\ (Len(path.keys) >= 2 => path.dot = path.default))

C6_Witness ==
    /\ path.pc = "spelled"
    /\ path.keys = <<Str_a, Str_b>>
    /\ FlatStyle(path.data)
    /\ path.default = "dflt"
    /\ path.colon = "v1"
    /\ path.underscore = "v1"
    /\ path.dot = "dflt"

\* The forms one comma-separated alternative is tried in: spaces dropped;
\* with a ':' first the form with '.' for it, then the form with '_' for
\* it; without, the alternative itself.  Each form split at its dots.
FormsOf(alt) ==
    LET a == Replace(alt, " ", << >>)
    IN  IF Contains(a, ":")
          THEN << Split(Replace(a, ":", <<".">>), "."),
                  Split(Replace(a, ":", <<"_">>), ".") >>
          ELSE << Split(a, ".") >>

\* The forms of all alternatives, left to right.
RECURSIVE FormsInOrder(_)
FormsInOrder(alts) ==
    IF alts = << >> THEN << >>
    ELSE FormsOf(Head(alts)) \o FormsInOrder(Tail(alts))

\* C22 as stated: resolve_path on a comma-separated path returns the value
\* of the first form, alternatives left to right and for ':' the '.' form
\* before the '_' form, that reaches a present key, whatever that key
\* stores.
C22_FirstPresentWins ==
    path.pc = "resolved" =>
        LET forms == FormsInOrder(Split(path.path, ","))
            hits  == {i \in 1 .. Len(forms) : Present(path.data, forms[i])}
        IN  hits # {} =>
              LET first == CHOOSE i \in hits : \A j \in hits : i <= j
              IN  path.result = path.data[forms[first]]

\* C22 as amended: resolve_path on a comma-separated path tries the
\* alternatives left to right, an alternative with ':' first in its '.'
\* form and then in its '_' form, and returns the value of the first form
\* that reaches a key storing something other than null, even when that
\* value is 0, the empty string or false and a later form reaches a truthy
\* value.  A key storing null is passed over like an absent one.
C22_FirstNonNullWins ==
    path.pc = "resolved" =>
        LET forms == FormsInOrder(Split(path.path, ","))
            hits  == {i \in 1 .. Len(forms) :
                        PresentNonNull(path.data, forms[i])}
        IN  hits # {} =>
              LET first == CHOOSE i \in hits : \A j \in hits : i <= j
              IN  path.result = path.data[forms[first]]

\* The '.' form of a:b reaches a 0 and is returned although the '_' form
\* reaches a non-empty string.
C22_Witness ==
    /\ path.pc = "resolved"
    /\ path.path = <<"a", ":", "b">>
    /\ <<Str_a, Str_b>> \in DOMAIN path.data
    /\ path.data[<<Str_a, Str_b>>] = "zero"
    /\ <<Str_a_b>> \in DOMAIN path.data
    /\ path.data[<<Str_a_b>>] = "v1"
    /\ path.result = "zero"

\* C23: path_exists(mapping, path) is true if and only if some expanded
\* form of the path reaches a key that is present in the mapping, whatever
\* it stores, null included.
C23_ExistsIffPresent ==
    path.pc = "checked" =>
        LET kps == NamedKeyPaths(path.path)
        IN  path.exists <=> \E i \in 1 .. Len(kps) : Present(path.data, kps[i])

\* As coded: path_exists is true if and only if some expanded form reaches
\* a key storing something other than null.
C23_ExistsIffNonNull ==
    path.pc = "checked" =>
        LET kps == NamedKeyPaths(path.path)
        IN  path.exists <=>
                \E i \in 1 .. Len(kps) : PresentNonNull(path.data, kps[i])

\* ---------------------------------------------------------------------------
\* The environment overlay: env2dict(prefix, data) writes the environment
\* variables that carry the prefix into a base document.  `path` holds the
\* call and what it left.
\* ---------------------------------------------------------------------------
MaxEnv == 2

\* str.lower() on the letters used in variable names.
LowerChar(c) ==
    CASE c = "P" -> "p" [] c = "Q" -> "q" [] c = "A" -> "a" [] c = "B" -> "b"
      [] OTHER -> c

Lower(s) == [i \in 1 .. Len(s) |-> LowerChar(s[i])]

\* str.startswith
StartsWith(s, p) == Len(s) >= Len(p) /\ SubSeq(s, 1, Len(p)) = p

\* The key paths strictly below key path kp.
Below(data, kp) ==
    {q \in DOMAIN data : Len(q) > Len(kp) /\ SubSeq(q, 1, Len(kp)) = kp}

\* The value at key path `at` is a dict (the document itself is one).
IsDictAt(data, at) == at = << >> \/ data[at] = "dict"

\* configuration/utility.py:112-116  the walk of dotset over attrs from the
\* dict at key path `at`.  setdefault on, or assignment into, a value that
\* is no dict raises.
RECURSIVE DotSetWalk(_, _, _, _)
DotSetWalk(data, attrs, at, value) ==
    IF ~IsDictAt(data, at) THEN [raised |-> TRUE, data |-> data]
    ELSE IF Len(attrs) = 1
      THEN LET child == Append(at, Head(attrs))
               keep  == (DOMAIN data \ Below(data, child)) \cup {child}
           IN  [raised |-> FALSE,
                data |-> [kp \in keep |-> IF kp = child THEN value
                                          ELSE data[kp]]]
    ELSE IF Head(attrs) = << >>
      THEN DotSetWalk(data, Tail(attrs), at, value)
    ELSE LET child == Append(at, Head(attrs))
             made  == IF child \in DOMAIN data THEN data
                      ELSE (child :> "dict") @@ data
         IN  DotSetWalk(made, Tail(attrs), child, value)

\* configuration/utility.py:107-118  dotset(data, path, value)
DotSet(data, p, value) ==
    DotSetWalk(data, Split(Replace(p, ":", <<".">>), "."), << >>, value)

\* configuration/utility.py:126-131  the loop of env2dict over os.environ.
RECURSIVE Env2DictLoop(_, _, _, _)
Env2DictLoop(prefix, data, environ, lower_key) ==
    IF environ = << >> THEN [raised |-> FALSE, data |-> data]
    ELSE LET name == Head(environ).name
             key  == IF lower_key THEN Lower(name) ELSE name
         IN  IF StartsWith(key, Lower(prefix))
               THEN LET r == DotSet(data,
                                    SubSeq(key, Len(prefix) + 2, Len(key)),
                                    Head(environ).value)
                    IN  IF r.raised THEN r
                        ELSE Env2DictLoop(prefix, r.data, Tail(environ),
                                          lower_key)
               ELSE Env2DictLoop(prefix, data, Tail(environ), lower_key)

\* configuration/utility.py:121-132  env2dict(prefix, data, lower_key)
Env2Dict(prefix, data, environ, lower_key) ==
    IF prefix = << >> THEN [raised |-> FALSE, data |-> data]
    ELSE Env2DictLoop(prefix, data, environ, lower_key)

\* Names of environment variables: P_A, P_A_B, P_A.B and Q_A.
EnvNames ==
    { <<"P", "_", "A">>, <<"P", "_", "A", "_", "B">>,
      <<"P", "_", "A", ".", "B">>, <<"Q", "_", "A">> }

EnvValues == <<"e1", "e2", "e3">>

\* os.environ in its iteration order: distinct names, each with a value of
\* its own.
Environments ==
    {[i \in 1 .. Len(q) |-> [name |-> q[i], value |-> EnvValues[i]]] :
        q \in {x \in SeqsUpTo(EnvNames, MaxEnv) :
                 \A i, j \in 1 .. Len(x) : i # j => x[i] # x[j]}}

EnvPrefixes == {<<"P">>, << >>}

EnvInit ==
    /\ \E m \in Mappings, pre \in EnvPrefixes, env \in Environments,
          lk \in BOOLEAN :
        path = [pc |-> "env ready", data |-> m, prefix |-> pre,
                environ |-> env, lower_key |-> lk, raised |-> FALSE,
                result |-> << >>]
    /\ retry = Off /\ gate = Off /\ store = Off /\ dv = Off /\ listing = Off
    /\ run = Off /\ reviews = Off /\ flow = Off /\ readiness = Off

\* env2dict(prefix, data) is called on the base document, as when a context
\* is built with an environment prefix.
OverlayEnvironment ==
    /\ path.pc = "env ready"
    /\ LET r == Env2Dict(path.prefix, path.data, path.environ, path.lower_key)
       IN  path' = [path EXCEPT !.pc = "overlaid", !.raised = r.raised,
                                !.result = r.data]
    /\ UNCHANGED <<retry, gate, store, dv, listing, run, reviews, flow, readiness>>

EnvNext == OverlayEnvironment

SpecEnv == EnvInit /\ [][EnvNext]_vars

\* The key K of a variable named prefix, separator, K.
KeyOf(name, prefix) == SubSeq(name, Len(prefix) + 2, Len(name))

\* The variable is named by the prefix, a '_' and a key.
HasPrefix(name, prefix) == StartsWith(name, prefix \o <<"_">>)

\* The nested key path of K with '.' and '_' both read as nesting.
NestedPathOf(k) == Split(Replace(Lower(k), "_", <<".">>), ".")

\* The nested key path of K with only '.' read as nesting.
DottedPathOf(k) == Split(Lower(k), ".")

\* C27: after the overlay with prefix P, the variable P_K written last is
\* found in the mapping at the nested path of its lower-cased key K with
\* '.' and '_' both expanded into nesting: P_A_B is found at a.b.
C27_EnvOverridesNested ==
    /\ path.pc = "overlaid" /\ ~path.raised
    /\ path.prefix # << >> /\ path.lower_key
    /\ path.environ # << >>
    =>
        LET last == path.environ[Len(path.environ)]
            kp   == NestedPathOf(KeyOf(last.name, path.prefix))
        IN  HasPrefix(last.name, path.prefix) =>
                kp \in DOMAIN path.result /\ path.result[kp] = last.value

\* As coded: the variable P_K written last is found at the path of its
\* lower-cased key K split at '.' only: P_A.B is found at a.b and P_A_B
\* under the single top-level key a_b, where it leaves a.b as it was.
C27_EnvWrittenAtDots ==
    /\ path.pc = "overlaid" /\ ~path.raised
    /\ path.prefix # << >> /\ path.lower_key
    /\ path.environ # << >>
    =>
        LET last == path.environ[Len(path.environ)]
            kp   == DottedPathOf(KeyOf(last.name, path.prefix))
        IN  HasPrefix(last.name, path.prefix) =>
                /\ kp \in DOMAIN path.result /\ path.result[kp] = last.value
                /\ (last.name = <<"P", "_", "A", "_", "B">>
                    /\ Len(path.environ) = 1
                    /\ <<Str_a, Str_b>> \in DOMAIN path.data
                        => /\ <<Str_a, Str_b>> \in DOMAIN path.result
                           /\ path.result[<<Str_a, Str_b>>]
                                = path.data[<<Str_a, Str_b>>])

(***************************************************************************)
(*                  CONFIG STORE AND DEFERRED VALUE                        *)
(*                                                                         *)
(* ConfigStore.store maps a context name to None or to a Config; a Config *)
(* is modelled by the nested mapping it holds.  configuration/config.py   *)
(* is not part of the sources: Config.get and Config.exists are taken to  *)
(* be the path resolver's dget and dotexists on the Config's mapping.     *)
(***************************************************************************)

ContextNames == {"default", "other"}

\* The documents a context is built from: {}, {a: null}, {a: {b: 0}},
\* {a_b: 0} and {a: {b: "v1"}, a_b: 0}.
ConfigDocs ==
    { << >>,
      <<Str_a>> :> "None",
      (<<Str_a>> :> "dict") @@ (<<Str_a, Str_b>> :> "zero"),
      <<Str_a_b>> :> "zero",
      (<<Str_a>> :> "dict") @@ (<<Str_a, Str_b>> :> "v1") @@ (<<Str_a_b>> :> "zero") }

\* A store entry that holds no Config (None).
NotBuilt == [built |-> FALSE, data |-> << >>]

\* Config.get(*keys, default=default) on the mapping of a Config.
ConfigGet(data, keys, default) == DGet(data, keys, default)

\* Config.exists(*keys) on the mapping of a Config.
ConfigExists(data, keys) == DotExists(data, keys)

ContextBuiltAlways(st) == TRUE

\* configuration/inject.py:84  isinstance(cls.store.get(cls.context), Config)
ContextBuilt(st) == st.contexts[st.context].built

\* The mapping of the active context.
ActiveData(st) == st.contexts[st.context].data

\* The keys of the Deferred Values resolved: a, a.b, a:b, a_b and "b,a:b".
DVKeys ==
    { <<"a">>, <<"a", ".", "b">>, <<"a", ":", "b">>, <<"a", "_", "b">>,
      <<"b", ",", "a", ":", "b">> }

\* ConfigValue.default: None (not given), 0, a non-empty string.
DVDefaults == {"None", "zero", "dflt"}

\* Python truthiness of a resolved value (a dict of ConfigDocs is not empty).
Truthy(v) == v \notin Falsy

\* configuration/inject.py:51  `self.mandatory and not self.default`
MandatoryWithoutDefault(mandatory, default) == mandatory /\ ~Truthy(default)

\* configuration/inject.py:71-72  the class attributes of ConfigStore.
\* `sourced` is history: the context named in the last configure_context
\* call that was given a source and returned.
ConfigInit ==
    /\ store = [pc |-> "on",
                contexts |-> [c \in ContextNames |-> NotBuilt],
                context |-> "default", sourced |-> "default"]
    /\ dv = [pc |-> "idle"]
    /\ retry = Off /\ gate = Off /\ path = Off /\ listing = Off /\ run = Off /\ reviews = Off /\ flow = Off /\ readiness = Off

\* A _set_config that stores the Config without making its context the
\* active one.
SetConfigKeepActive(st, c, m) ==
    [st EXCEPT !.contexts[c] = [built |-> TRUE, data |-> m]]

\* configuration/inject.py:143-162  _set_config
SetConfig(st, c, m) ==
    [st EXCEPT !.contexts[c] = [built |-> TRUE, data |-> m], !.context = c]

\* configuration/inject.py:125-129  configure_context(context=c, source=cfg)
\* with a built Config as the source.  What was resolved before is no longer
\* a resolution against the store as it is now.
ConfigureWithConfig ==
    /\ store.pc = "on"
    /\ \E c \in ContextNames, m \in ConfigDocs :
        store' = [SetConfig(store, c, m) EXCEPT !.sourced = c]
    /\ dv' = [pc |-> "idle"]
    /\ UNCHANGED <<retry, gate, path, listing, run, reviews, flow, readiness>>

\* configuration/inject.py:45-58  what ConfigValue(key, default,
\* after=..., mandatory=...).resolve() does for a string key against the
\* store `st`.
ResolveOutcome(st, call) ==
    IF ~ContextBuilt(st)
      \* inject.py:84-85  ConfigStore.config() raises
      THEN [pc |-> "raised", call |-> call, value |-> "None",
            transformed |-> FALSE, error |-> "not initialized"]
    ELSE IF /\ MandatoryWithoutDefault(call.mandatory, call.default)
            /\ ~ConfigExists(ActiveData(st), <<call.key>>)
      \* inject.py:52-53
      THEN [pc |-> "raised", call |-> call, value |-> "None",
            transformed |-> FALSE, error |-> "mandatory but missing"]
    ELSE LET value == ConfigGet(ActiveData(st), Split(call.key, ","),
                                call.default)
         IN  [pc |-> "returned", call |-> call, value |-> value,
              transformed |-> Truthy(value) /\ call.after,
              error |-> "None"]

\* The Deferred Values resolved.
DVCalls ==
    [key : DVKeys, default : DVDefaults, mandatory : BOOLEAN, after : BOOLEAN]

\* configuration/inject.py:45-58  a Deferred Value is built and resolved.
ResolveValue ==
    /\ store.pc = "on"
    /\ \E call \in DVCalls : dv' = ResolveOutcome(store, call)
    /\ UNCHANGED <<retry, gate, path, store, listing, run, reviews, flow, readiness>>

KeepExistingAndSwitch(st, c) == [st EXCEPT !.context = c]

\* configuration/inject.py:131-132  with no source and a Config stored
\* under the name, the stored Config is returned and nothing is assigned.
KeepExisting(st, c) == st

\* A test that takes every name to hold a Config.
DefinedAlways(st, c) == TRUE

\* configuration/inject.py:125  `cls.store.get(context)` is truthy: the
\* name holds a Config (a Config object is taken to be truthy whatever it
\* holds; a name that is not in the store reads as None).
Defined(st, c) == st.contexts[c].built

\* configuration/inject.py:125-132  configure_context(context=c) with no
\* source.
ConfigureNoSource ==
    /\ store.pc = "on"
    /\ \E c \in ContextNames :
        IF ~Defined(store, c)
          THEN /\ dv' = [pc |-> "configure raised", context |-> c,
                         error |-> "undefined"]
               /\ store' = store
          ELSE /\ store' = KeepExisting(store, c)
               /\ dv' = [pc |-> "configure returned", context |-> c,
                         data |-> store'.contexts[c].data,
                         before |-> [contexts |-> store.contexts,
                                     context |-> store.context]]
    /\ UNCHANGED <<retry, gate, path, listing, run, reviews, flow, readiness>>

\* configuration/inject.py:74-86  ConfigStore.config()
Current ==
    /\ store.pc = "on"
    /\ dv' = IF ContextBuilt(store)
               THEN [pc |-> "current returned", data |-> ActiveData(store)]
               ELSE [pc |-> "current raised", error |-> "not initialized"]
    /\ UNCHANGED <<retry, gate, path, store, listing, run, reviews, flow, readiness>>

ConfigNext ==
    \/ ConfigureWithConfig
    \/ ConfigureNoSource
    \/ Current
    \/ ResolveValue

SpecConfig == ConfigInit /\ [][ConfigNext]_vars

\* C7: in a built active context, resolving a Deferred Value that is marked
\* mandatory and was given no default fails with the configuration error
\* when path_exists is false for its key and succeeds, returning the stored
\* value (passed through the transform, if one was supplied), when
\* path_exists is true; a mandatory Deferred Value that was given a default
\* (any default other than None) never fails because the key is missing.
C7_Mandatory ==
    dv.pc \in {"returned", "raised"} /\ ContextBuilt(store) /\ dv.call.mandatory =>
        LET exists == DotExists(ActiveData(store), <<dv.call.key>>)
        IN  IF dv.call.default = "None"
              THEN IF exists
                     THEN /\ dv.pc = "returned"
                          /\ dv.value = DGet(ActiveData(store),
                                             Split(dv.call.key, ","), "None")
                          /\ dv.value # "None"
                     ELSE dv.pc = "raised" /\ dv.error = "mandatory but missing"
              ELSE dv.pc = "returned"

\* What the code does for C7's case: the mandatory check is skipped only for
\* a truthy default, so a mandatory Deferred Value whose default is 0, ""
\* or False fails like one without a default when its key is missing.
C7_MandatoryAsCoded ==
    dv.pc \in {"returned", "raised"} /\ ContextBuilt(store) /\ dv.call.mandatory =>
        LET exists == DotExists(ActiveData(store), <<dv.call.key>>)
        IN  IF dv.call.default \in Falsy /\ ~exists
              THEN dv.pc = "raised" /\ dv.error = "mandatory but missing"
              ELSE dv.pc = "returned"

\* C17: configure(context_name) with no source, on a name that already
\* holds a built context, returns that context and changes nothing: the
\* stored mapping of every context and the identity of the active context
\* are what they were before the call, at every such call.
C17_ConfigureNoSourceKeeps ==
    dv.pc = "configure returned" =>
        /\ store.contexts = dv.before.contexts
        /\ store.context = dv.before.context
        /\ dv.data = dv.before.contexts[dv.context].data

\* configure with no source was called for a built context that is not the
\* active one, while both contexts are built from different documents.
C17_Witness ==
    /\ dv.pc = "configure returned"
    /\ dv.context # store.context
    /\ store.contexts[store.context].built
    /\ store.contexts[dv.context].data # store.contexts[store.context].data

\* C18: in every state of the Config Store in which the active context was
\* never built, current() and the resolution of a key-based Deferred Value
\* fail with the configuration error; they never return a mapping or the
\* Deferred Value's default.
C18_UnbuiltContextFails ==
    store.pc = "on" /\ ~store.contexts[store.context].built =>
        /\ dv.pc \in {"returned", "raised"} =>
              dv.pc = "raised" /\ dv.error = "not initialized"
        /\ dv.pc \in {"current returned", "current raised"} =>
              dv.pc = "current raised" /\ dv.error = "not initialized"

\* A Deferred Value that has a default was resolved while the active
\* context had never been built.
C18_Witness ==
    /\ ~store.contexts[store.context].built
    /\ dv.pc = "raised"
    /\ dv.call.default = "dflt" /\ ~dv.call.mandatory
    /\ dv.error = "not initialized"

\* C28: configure_context for a name that holds nothing, called without a
\* source, fails with the error of an undefined context, and only then; the
\* failing call leaves the stored contexts and the active context exactly
\* as they were.
C28_UndefinedFailsAndKeepsStore ==
    [][dv'.pc \in {"configure raised", "configure returned"} =>
          /\ (dv'.pc = "configure raised")
                <=> ~store.contexts[dv'.context].built
          /\ dv'.pc = "configure raised" =>
                /\ dv'.error = "undefined"
                /\ store'.contexts = store.contexts
                /\ store'.context = store.context]_vars

\* configure_context without a source failed for a name that holds nothing
\* while another context was built and active.
C28_Witness ==
    /\ dv.pc = "configure raised"
    /\ ~store.contexts[dv.context].built
    /\ store.context # dv.context
    /\ store.contexts[store.context].built

\* C29: the active context is always the one named in the last
\* configure_context call that was given a source and returned, "default"
\* before any such call: a configure with a source makes its context active
\* whichever was active before and changes no other context's stored
\* mapping, and a configure without a source never changes which context is
\* active.
C29_ActiveIsLastSourced ==
    [][/\ store.context = store.sourced
       /\ store'.context = store'.sourced
       /\ \A a \in ContextNames :
            a # store'.sourced => store'.contexts[a] = store.contexts[a]
       /\ dv'.pc \in {"configure raised", "configure returned"} =>
            store'.context = store.context]_vars

\* Context "other" was configured with a source while "default" was built
\* and active; "other" is active now, also after a configure of "default"
\* without a source.
C29_Witness ==
    /\ store.context = "other"
    /\ store.sourced = "other"
    /\ store.contexts["default"].built
    /\ store.contexts["default"].data # store.contexts["other"].data
    /\ dv.pc = "configure returned"
    /\ dv.context = "default"

\* ---------------------------------------------------------------------------
\* One Deferred Value resolved repeatedly while the store is reconfigured.
\* `dv` here is the Deferred Value object (its fields are in dv.call) with
\* what its last resolve() did; prev, stale and replaced are history.
\* ---------------------------------------------------------------------------

\* What one resolve() leaves to compare a later one with.
NoResolution == [pc |-> "none", value |-> "None"]

\* configuration/inject.py:45-58  resolve() keeps nothing between calls: the
\* outcome of a call is the fresh outcome, whatever an earlier call gave.
ResolveCached(earlier, fresh) ==
    IF earlier.pc = "returned"
      THEN [fresh EXCEPT !.pc = "returned", !.value = earlier.value,
                         !.error = "None"]
      ELSE fresh

ResolveFresh(earlier, fresh) == fresh

\* configuration/inject.py:30-38  ConfigValue(key, default, mandatory, after)
\* is constructed; configuration/inject.py:71-72 the store as first loaded.
DeferredInit ==
    /\ store = [pc |-> "on",
                contexts |-> [c \in ContextNames |-> NotBuilt],
                context |-> "default"]
    /\ \E call \in DVCalls :
        dv = [pc |-> "unresolved", call |-> call, value |-> "None",
              transformed |-> FALSE, error |-> "None",
              prev |-> NoResolution, stale |-> FALSE, replaced |-> FALSE]
    /\ retry = Off /\ gate = Off /\ path = Off /\ listing = Off /\ run = Off /\ reviews = Off /\ flow = Off /\ readiness = Off

\* configuration/inject.py:125-129, 143-162  configure_context(context=c,
\* source=cfg) while the Deferred Value exists.
Reconfigure ==
    /\ store.pc = "on"
    /\ dv.pc # "idle"
    /\ \E c \in ContextNames, m \in ConfigDocs :
        store' = SetConfig(store, c, m)
    /\ dv' = [dv EXCEPT !.stale = TRUE]
    /\ UNCHANGED <<retry, gate, path, listing, run, reviews, flow, readiness>>

\* configuration/inject.py:45-58  resolve() (or .value, line 40-43) on the
\* same Deferred Value once more.
ResolveAgain ==
    /\ store.pc = "on"
    /\ dv.pc \in {"unresolved", "returned", "raised"}
    /\ LET earlier == [pc |-> dv.pc, value |-> dv.value]
           fresh   == ResolveOutcome(store, dv.call)
           out     == ResolveFresh(earlier, fresh)
       IN  dv' = [pc |-> out.pc, call |-> dv.call, value |-> out.value,
                  transformed |-> out.transformed, error |-> out.error,
                  prev |-> IF dv.pc = "unresolved" THEN NoResolution
                           ELSE earlier,
                  stale |-> FALSE,
                  replaced |-> dv.stale /\ dv.pc # "unresolved"]
    /\ UNCHANGED <<retry, gate, path, store, listing, run, reviews, flow, readiness>>

DeferredNext == Reconfigure \/ ResolveAgain

SpecDeferred == DeferredInit /\ [][DeferredNext]_vars

\* C21: a Deferred Value is resolved afresh on every resolve() call: what a
\* call returned is the value the key has (or the default) in the mapping
\* that is active at that call, also when an earlier call on the same
\* Deferred Value returned something else before the mapping was replaced.
C21_ResolvedAfresh ==
    (dv.pc = "returned" /\ ~dv.stale)
        => dv.value = ConfigGet(store.contexts[store.context].data,
                                Split(dv.call.key, ","), dv.call.default)

\* The second of two calls came after the active mapping was replaced and
\* returned a value other than the one the first call had returned.
C21_Witness ==
    /\ dv.pc = "returned" /\ ~dv.stale /\ dv.replaced
    /\ dv.prev.pc = "returned"
    /\ dv.prev.value # dv.value


(***************************************************************************)
(*                        CANDIDATE LISTING                                *)
(***************************************************************************)

\* Most product containers on a listing page handed to get_products alone.
MaxContainers == 3

\* A product container of a listing page: the value of its data-asin
\* attribute ("None" when it has none) and what the field lookups in it do:
\* all succeed, one raises NoSuchElementException, or one raises another
\* error (a readiness failure inside find_element, a stale element).
Containers ==
    {[asin |-> a, lookup |-> l] :
        a \in {"None", "B001", "B002"}, l \in {"ok", "nosuch", "fail"}}

\* amazon_scraper.py:320  f"{base_url}/dp/{asin}"
SimplifiedUrl(base_url, asin) == <<base_url, "/dp/", asin>>

\* amazon_scraper.py:312-327  the loop of get_products over the containers:
\* a container is appended as a product unless a lookup in it raises;
\* NoSuchElementException skips the container, any other error leaves
\* get_products.
RECURSIVE ProductsOf(_, _, _)
ProductsOf(elements, base_url, acc) ==
    IF elements = << >> THEN [raised |-> FALSE, products |-> acc]
    ELSE LET el == Head(elements)
         IN  IF el.lookup = "fail" THEN [raised |-> TRUE, products |-> acc]
             ELSE IF el.lookup = "nosuch"
               THEN ProductsOf(Tail(elements), base_url, acc)
               ELSE ProductsOf(Tail(elements), base_url,
                        Append(acc, [asin |-> el.asin,
                                     simplified_url |-> SimplifiedUrl(base_url, el.asin)]))

\* amazon_scraper.py:291-331  get_products(driver, page, base_url) on a page
\* whose readiness wait succeeds or not and that holds `elements`.
GetProducts(ready, elements, base_url) ==
    IF ~ready THEN [raised |-> TRUE, products |-> << >>]
    ELSE ProductsOf(elements, base_url, << >>)

BaseUrl == "https://www.amazon.com"

\* get_products is called on a listing page.
ListingInit ==
    /\ \E els \in SeqsUpTo(Containers, MaxContainers), r \in BOOLEAN :
        listing = [pc |-> "called", elements |-> els, ready |-> r,
                   raised |-> FALSE, products |-> << >>]
    /\ retry = Off /\ gate = Off /\ path = Off /\ store = Off /\ dv = Off
    /\ run = Off /\ reviews = Off /\ flow = Off /\ readiness = Off

ListProducts ==
    /\ listing.pc = "called"
    /\ LET r == GetProducts(listing.ready, listing.elements, BaseUrl)
       IN  listing' = [listing EXCEPT
                          !.pc = IF r.raised THEN "raised" ELSE "returned",
                          !.raised = r.raised,
                          !.products = r.products]
    /\ UNCHANGED <<retry, gate, path, store, dv, run, reviews, flow, readiness>>

SpecListing == ListingInit /\ [][ListProducts]_vars

\* The containers of a list that have a resolvable asin.
WithAsin(elements) ==
    {i \in 1 .. Len(elements) : elements[i].asin # "None"}

\* C10: a listing page whose field lookups all succeed yields one Harvest
\* Record per product container that has a resolvable asin and none for a
\* container without one, and every record has simplified_url equal to
\* base_url + "/dp/" + its asin.
C10_OneRecordPerAsin ==
    /\ listing.pc = "returned"
    /\ \A i \in 1 .. Len(listing.elements) : listing.elements[i].lookup = "ok"
    =>
        /\ Len(listing.products) = Cardinality(WithAsin(listing.elements))
        /\ \A i \in 1 .. Len(listing.products) :
            /\ listing.products[i].asin # "None"
            /\ listing.products[i].simplified_url
                  = <<BaseUrl, "/dp/", listing.products[i].asin>>

\* What the code does for C10's case: one record per container whose
\* lookups succeed, with or without an asin, each with simplified_url equal
\* to base_url + "/dp/" + str(asin).
C10_OneRecordPerContainer ==
    /\ listing.pc = "returned"
    /\ \A i \in 1 .. Len(listing.elements) : listing.elements[i].lookup = "ok"
    =>
        /\ Len(listing.products) = Len(listing.elements)
        /\ \A i \in 1 .. Len(listing.products) :
            /\ listing.products[i].asin = listing.elements[i].asin
            /\ listing.products[i].simplified_url
                  = <<BaseUrl, "/dp/", listing.products[i].asin>>

\* The containers of a list whose field lookups all succeed.
RECURSIVE Extractable(_)
Extractable(elements) ==
    IF elements = << >> THEN << >>
    ELSE IF Head(elements).lookup = "ok"
      THEN <<Head(elements)>> \o Extractable(Tail(elements))
      ELSE Extractable(Tail(elements))

\* C14: on a listing page that got ready, a product container whose field
\* extraction throws, with an element-not-found or with any other failure
\* such as a readiness failure inside a field lookup, is skipped; the
\* other containers of the page are still processed and the page's result
\* is returned.
C14_ThrowingContainerSkipped ==
    listing.pc \in {"returned", "raised"} /\ listing.ready =>
        /\ listing.pc = "returned"
        /\ Len(listing.products) = Len(Extractable(listing.elements))
        /\ \A i \in 1 .. Len(listing.products) :
            listing.products[i].asin = Extractable(listing.elements)[i].asin

\* What the code does for C14's case: only a container whose lookup raises
\* NoSuchElementException is skipped; any other failure in a lookup leaves
\* get_products and the page yields nothing.
C14_OnlyNotFoundSkipped ==
    listing.pc \in {"returned", "raised"} /\ listing.ready =>
        IF \E i \in 1 .. Len(listing.elements) : listing.elements[i].lookup = "fail"
          THEN listing.pc = "raised"
          ELSE /\ listing.pc = "returned"
               /\ Len(listing.products) = Len(Extractable(listing.elements))
               /\ \A i \in 1 .. Len(listing.products) :
                    listing.products[i].asin = Extractable(listing.elements)[i].asin

(***************************************************************************)
(*                        SEARCH PIPELINE                                  *)
(***************************************************************************)

\* Largest page count the results page reports.
MaxPageCount == 3
\* Largest max_search_result_pages and max_results passed (0 stands for None).
MaxPageCap == 2
MaxResultCap == 2
\* Most product containers on a listing page visited by the pipeline.
MaxPerPage == 2

Min(a, b) == IF a <= b THEN a ELSE b

Take(s, k) == SubSeq(s, 1, Min(k, Len(s)))

\* str(n) as its decimal digits.
RECURSIVE Digits(_)
Digits(n) == IF n < 10 THEN <<n>> ELSE Append(Digits(n \div 10), n % 10)

\* str.zfill(width)
RECURSIVE ZFill(_, _)
ZFill(s, width) == IF Len(s) >= width THEN s ELSE ZFill(<<0>> \o s, width)

\* amazon_scraper.py:575  f"{str(sort_id).zfill(4)}"
SortIdText(sort_id) == ZFill(Digits(sort_id), 4)

\* What the page-count element of the results page reads as: absent, a
\* number, or text that is no number.
PageCountReads ==
    {[kind |-> "absent", n |-> 0], [kind |-> "junk", n |-> 0]}
        \cup {[kind |-> "number", n |-> k] : k \in 0 .. MaxPageCount}

ClampPagesIgnoringMax(number_of_pages, max_search_result_pages) ==
    number_of_pages

\* amazon_scraper.py:279
ClampPages(number_of_pages, max_search_result_pages) ==
    IF max_search_result_pages # 0
      THEN Min(number_of_pages, max_search_result_pages)
      ELSE number_of_pages

\* amazon_scraper.py:282-287  the listing pages, named by their page number:
\* the current URL, then one synthesised URL with page=p+1 for each p in
\* range(1, number_of_pages).
PageUrls(number_of_pages) ==
    IF number_of_pages > 1
      THEN <<1>> \o [p \in 1 .. number_of_pages - 1 |-> p + 1]
      ELSE <<1>>

Raises(error) ==
    [raised |-> TRUE, error |-> error, n |-> 0, pages |-> << >>, log |-> << >>]

\* amazon_scraper.py:238-288  get_search_result_pages
GetSearchResultPages(box, ready, count, max_search_result_pages) ==
    IF ~box THEN Raises("NoSuchElementException")
    ELSE IF ~ready THEN Raises("TimeoutError")
    ELSE IF count.kind = "absent" THEN Raises("NoSuchElementException")
    ELSE IF count.kind = "junk" THEN Raises("ValueError")
    ELSE IF count.n = 0 THEN Raises("ValueError")
    ELSE LET k == ClampPages(count.n, max_search_result_pages)
         IN  [raised |-> FALSE, error |-> "none", n |-> count.n,
              pages |-> PageUrls(k),
              log |-> << <<"found", count.n, 0>>,
                         <<"max", max_search_result_pages, k>> >>]

\* The containers of the listing pages the pipeline visits.
ListedContainers == {c \in Containers : c.asin = "B001"}

PageContents == SeqsUpTo(ListedContainers, MaxPerPage)

\* Outcomes of the page capture and of the deep extraction of one candidate:
\* it returns, the readiness wait times out, or another error is raised.
VisitOutcomes == {"ok", "TimeoutError", "Error"}

\* search_amazon is called; 0 stands for a None argument.
RunInit ==
    /\ \E mr \in 0 .. MaxResultCap, mp \in 0 .. MaxPageCap, od \in BOOLEAN :
        run = [pc |-> "start", max_results |-> mr,
               max_search_result_pages |-> mp, output_directory |-> od,
               driver |-> "none", dom |-> "none", n |-> 0, pages |-> << >>,
               shots |-> << >>, visited |-> << >>, counts |-> << >>,
               found |-> 0,
               stopped |-> FALSE, search_results |-> << >>,
               candidates |-> 0, sort_id |-> 1, failed |-> {},
               error |-> "none", stage |-> "none", log |-> << >>]
    /\ retry = Off /\ gate = Off /\ path = Off /\ store = Off /\ dv = Off
    /\ listing = Off /\ reviews = Off /\ flow = Off /\ readiness = Off

\* An exception leaves search_amazon: nothing is returned and driver.quit()
\* at line 581 is not reached.
Abort(r, stage, error) ==
    [r EXCEPT !.pc = "raised", !.stage = stage, !.error = error]

\* amazon_scraper.py:581-583
QuitAndReturn(r) == [r EXCEPT !.pc = "returned", !.driver = "quit"]

\* amazon_scraper.py:550-554  the driver is opened and Pagination Discovery
\* runs.
Discover ==
    /\ run.pc = "start"
    /\ \E box \in BOOLEAN, ready \in BOOLEAN, count \in PageCountReads :
        LET d == GetSearchResultPages(box, ready, count,
                                      run.max_search_result_pages)
            r == [run EXCEPT !.driver = "open",
                             !.dom = [box |-> box, ready |-> ready,
                                      count |-> count]]
        IN  run' = IF d.raised THEN Abort(r, "discovery", d.error)
                   ELSE [r EXCEPT !.n = d.n, !.pages = d.pages,
                                  !.log = d.log,
                                  !.pc = IF run.output_directory
                                           THEN "capture" ELSE "listing"]
    /\ UNCHANGED <<retry, gate, path, store, dv, listing, reviews, flow, readiness>>

\* amazon_scraper.py:554-556  one iteration of the page capture loop.
CapturePage ==
    /\ run.pc = "capture"
    /\ \E o \in VisitOutcomes :
        LET page == run.pages[Len(run.shots) + 1]
        IN  run' = IF o # "ok" THEN Abort(run, "capture", o)
                   ELSE [run EXCEPT !.shots = Append(@, page),
                                    !.pc = IF Len(run.shots) + 1 = Len(run.pages)
                                             THEN "listing" ELSE "capture"]
    /\ UNCHANGED <<retry, gate, path, store, dv, listing, reviews, flow, readiness>>

\* The records get_products returned for a page, as search_amazon holds
\* them: stamped here with the page and the rank in listing order.
RECURSIVE Stamp(_, _, _)
Stamp(products, page, rank) ==
    IF products = << >> THEN << >>
    ELSE << [asin |-> Head(products).asin,
             simplified_url |-> Head(products).simplified_url,
             page |-> page, rank |-> rank, sort_id |-> << >>] >>
         \o Stamp(Tail(products), page, rank + 1)

\* amazon_scraper.py:565-568  after the listing loop: truncation to
\* max_results; with no candidate the deep extraction loop is empty.
AfterListing(r, acc, stop) ==
    LET cut == IF r.max_results # 0 THEN Take(acc, r.max_results) ELSE acc
        s == [r EXCEPT !.found = Len(acc), !.stopped = stop,
                       !.search_results = cut, !.candidates = Len(cut),
                       !.sort_id = 1, !.pc = "deep"]
    IN  IF cut = << >> THEN QuitAndReturn(s) ELSE s

ResultCapReachedLate(max_results, count) ==
    max_results # 0 /\ count > max_results

\* amazon_scraper.py:561  `max_results and len(search_results) >= max_results`
ResultCapReached(max_results, count) ==
    max_results # 0 /\ count >= max_results

\* amazon_scraper.py:559-566  one iteration of the listing loop.  `counts`
\* keeps the length of search_results after each page listed.
ListPage ==
    /\ run.pc = "listing"
    /\ \E ready \in BOOLEAN, elements \in PageContents :
        LET page == run.pages[Len(run.visited) + 1]
            g == GetProducts(ready, elements, BaseUrl)
            acc == run.search_results
                     \o Stamp(g.products, page, Len(run.search_results) + 1)
            stop == ResultCapReached(run.max_results, Len(acc))
            v == [run EXCEPT !.visited = Append(@, page)]
            r == [v EXCEPT !.counts = Append(@, Len(acc))]
        IN  run' = IF g.raised THEN Abort(v, "listing", "Error")
                   ELSE IF stop
                     THEN AfterListing(
                            [r EXCEPT !.log = Append(@, <<"stop", run.max_results, 0>>)],
                            acc, TRUE)
                   ELSE IF Len(r.visited) = Len(run.pages)
                     THEN AfterListing(r, acc, FALSE)
                   ELSE [r EXCEPT !.search_results = acc]
    /\ UNCHANGED <<retry, gate, path, store, dv, listing, reviews, flow, readiness>>

\* An extraction that stores the extracted record as a further record.
UpdateRecordAppending(results, i, sid) ==
    Append(results, [results[i] EXCEPT !.sort_id = sid])

\* amazon_scraper.py:570-579  result.update(product_info) and the fields set
\* on `result`: the record at position i is changed in place.
UpdateRecord(results, i, sid) == [results EXCEPT ![i].sort_id = sid]

\* amazon_scraper.py:569-583  one iteration of the deep extraction loop; the
\* call of get_product_info at line 570 is not inside a try.
ExtractProduct ==
    /\ run.pc = "deep"
    /\ \E o \in VisitOutcomes :
        LET i == run.sort_id
            r == [run EXCEPT !.search_results =
                                 UpdateRecord(@, i, SortIdText(run.sort_id)),
                             !.sort_id = @ + 1]
        IN  run' = IF o # "ok"
                     THEN Abort([run EXCEPT !.failed = @ \cup {i}], "deep", o)
                   ELSE IF i = Len(run.search_results) THEN QuitAndReturn(r)
                   ELSE r
    /\ UNCHANGED <<retry, gate, path, store, dv, listing, reviews, flow, readiness>>

RunNext == Discover \/ CapturePage \/ ListPage \/ ExtractProduct

SpecRun == RunInit /\ [][RunNext]_vars

Range(s) == {s[i] : i \in 1 .. Len(s)}

\* The deep extraction loop has been entered or passed.
ListingOver ==
    \/ run.pc \in {"deep", "returned"}
    \/ run.pc = "raised" /\ run.stage = "deep"

RunEnded == run.pc \in {"returned", "raised"}

\* C8: when the deep extraction of some candidates raises an error that is
\* not a timeout, the run still returns; the failing candidates are absent
\* from the result and the survivors carry the sort ids 0001, 0002, ... in
\* order without a gap.
C8_FailuresIsolated ==
    /\ RunEnded
    /\ run.failed # {}
    /\ run.error # "TimeoutError"
    =>
        /\ run.pc = "returned"
        /\ Len(run.search_results) = run.candidates - Cardinality(run.failed)
        /\ \A i \in 1 .. Len(run.search_results) :
            /\ run.search_results[i].sort_id = SortIdText(i)
            /\ run.search_results[i].rank \notin run.failed

\* What the code does for C8's case: the first candidate whose extraction
\* raises ends the run with that error, nothing is returned and the driver
\* stays open; a run that returns has extracted every candidate and
\* numbered them 0001, 0002, ... in listing order.
C8_FirstFailureEndsRun ==
    /\ run.failed # {} =>
        /\ run.pc = "raised" /\ run.stage = "deep" /\ run.driver = "open"
        /\ run.failed = {run.sort_id}
    /\ run.pc = "returned" =>
        /\ run.failed = {}
        /\ Len(run.search_results) = run.candidates
        /\ \A i \in 1 .. Len(run.search_results) :
            run.search_results[i].sort_id = SortIdText(i)

\* C25: when the deep extraction of a candidate fails with a page-load
\* timeout the run goes on: the candidate is tried again and, if it keeps
\* timing out, dropped, and the candidates after it are still processed, so
\* the run returns with the timed-out candidate absent from the result.
C25_TimeoutRetriedThenDropped ==
    /\ RunEnded
    /\ run.failed # {}
    /\ run.error = "TimeoutError"
    =>
        /\ run.pc = "returned"
        /\ \A i \in 1 .. Len(run.search_results) :
            run.search_results[i].rank \notin run.failed

\* What the code does for C25's case: get_product_info is called once for
\* the candidate; its TimeoutError leaves search_amazon at once, the
\* candidates after it are never extracted and the driver stays open.
C25_TimeoutEndsRun ==
    run.error = "TimeoutError" /\ run.stage = "deep" =>
        /\ run.pc = "raised" /\ run.driver = "open"
        /\ run.failed = {run.sort_id}
        /\ \A i \in 1 .. Len(run.search_results) :
            i < run.sort_id <=> run.search_results[i].sort_id = SortIdText(i)

IsPrefix(s, t) == Len(s) <= Len(t) /\ s = SubSeq(t, 1, Len(s))

C19_StopsAtMaxResults ==
    run.pc # "start" /\ run.max_results >= 1 =>
        /\ IsPrefix(run.visited, run.pages)
        /\ \A i \in 1 .. Len(run.counts) :
              i < Len(run.visited) => run.counts[i] < run.max_results
        /\ ListingOver =>
              /\ run.candidates = Min(run.max_results, run.found)
              /\ Len(run.search_results) = run.candidates
              /\ \A i \in 1 .. run.candidates : run.search_results[i].rank = i

\* With a maximum of 1, the first of two listing pages yielded two
\* candidates: the second page was not visited and one candidate was
\* handed on.
C19_Witness ==
    /\ ListingOver
    /\ run.max_results = 1
    /\ run.pages = <<1, 2>> /\ run.visited = <<1>>
    /\ run.found = 2 /\ run.candidates = 1
    /\ run.search_results[1].rank = 1

\* The search box appeared and the results page got ready, and the
\* page-count element was absent or its text could not be read as a number.
PageCountUnreadable ==
    /\ run.pc # "start"
    /\ run.dom.box /\ run.dom.ready
    /\ run.dom.count.kind \in {"absent", "junk"}

\* C13: in Pagination Discovery, when the page-count element is absent or
\* reading it throws, the stage does not fail: it returns exactly one
\* listing page, the current search-result URL, and logs the condition.
C13_UnreadableCountOnePage ==
    PageCountUnreadable =>
        /\ ~(run.pc = "raised" /\ run.stage = "discovery")
        /\ run.pages = <<1>>
        /\ \E i \in 1 .. Len(run.log) : run.log[i][1] = "one page"

\* What the code does for C13's case: the wait for the page-count element
\* or the conversion of its text raises, no page is returned and nothing
\* is logged.
C13_UnreadableCountRaises ==
    PageCountUnreadable =>
        /\ run.pc = "raised" /\ run.stage = "discovery"
        /\ run.error = IF run.dom.count.kind = "absent"
                         THEN "NoSuchElementException" ELSE "ValueError"
        /\ run.pages = << >> /\ run.log = << >>

(***************************************************************************)
(*                        REVIEW SUB-PIPELINE                              *)
(***************************************************************************)

\* Most products handed to export_reviews alone, and most reviews a review
\* page shows.
MaxProducts == 2
MaxReviews == 1

Sentiments == {"positive", "critical"}

\* The review page of a product: whether it gets ready, whether it has the
\* "All stars" control, whether it has the control of the requested
\* sentiment filter, and how many reviews it lists under that filter.
ReviewPages ==
    [ready : BOOLEAN, all_stars : BOOLEAN, filter : BOOLEAN,
     reviews : 0 .. MaxReviews]

\* amazon_scraper.py:620-687  get_reviews on such a page.  The list of
\* reviews returned is modelled by its length.
GetReviews(page) ==
    IF ~page.ready
      THEN [raised |-> TRUE, error |-> "TimeoutError", reviews |-> 0]
    ELSE IF ~page.all_stars
      \* lines 655-661
      THEN [raised |-> TRUE, error |-> "NoSuchElementException", reviews |-> 0]
    ELSE IF ~page.filter
      \* lines 666-668
      THEN [raised |-> TRUE, error |-> "ValueError", reviews |-> 0]
    ELSE [raised |-> FALSE, error |-> "none", reviews |-> page.reviews]

\* amazon_scraper.py:731
ReviewFile(output_directory, sort_id, sentiment) ==
    <<output_directory, "/", sort_id, "/", sort_id, "_", sentiment,
      "_reviews.csv">>

OutputDirectory == "out"

\* The records export_reviews reads: asin and sort_id of k results.
ResultRecords(k) ==
    [i \in 1 .. k |-> [asin |-> "B001", sort_id |-> SortIdText(i)]]

\* No review page has been fetched yet.
NoPage == [ready |-> FALSE, all_stars |-> FALSE, filter |-> FALSE,
           reviews |-> -1]

\* amazon_scraper.py:705-707  the state of a call of export_reviews.
\* `fetched` holds the number of reviews of each product fetched so far and
\* `page` the review page of the last fetch.
ExportCall(results, sentiment, create_empty_files) ==
    [pc |-> "called", results |-> results, sentiment |-> sentiment,
     create_empty_files |-> create_empty_files, driver |-> "none",
     next |-> 1, fetched |-> << >>, page |-> NoPage, files |-> {},
     log |-> << >>, error |-> "none"]

\* export_reviews is called on its own.
ReviewsInit ==
    /\ \E k \in 0 .. MaxProducts, s \in Sentiments, c \in BOOLEAN :
        reviews = ExportCall(ResultRecords(k), s, c)
    /\ retry = Off /\ gate = Off /\ path = Off /\ store = Off /\ dv = Off
    /\ listing = Off /\ run = Off /\ flow = Off /\ readiness = Off

\* amazon_scraper.py:721-724  results[0] is read (IndexError on an empty
\* list) and the review session is opened.
ExportOpen ==
    /\ reviews.pc = "called"
    /\ reviews' = IF reviews.results = << >>
                    THEN [reviews EXCEPT !.pc = "raised", !.error = "IndexError"]
                    ELSE [reviews EXCEPT !.pc = "loop", !.driver = "open"]
    /\ UNCHANGED <<retry, gate, path, store, dv, listing, run, flow, readiness>>

NoReviewsNever(n) == FALSE

\* amazon_scraper.py:732  `if not reviews`
NoReviews(n) == n = 0

\* amazon_scraper.py:732-740  what export_reviews does with the n reviews
\* fetched for `result`: an empty file (when enabled) for none, the CSV
\* otherwise; save_reviews reads reviews[0] for the header.
StoreReviews(r, result, n) ==
    LET filename == ReviewFile(OutputDirectory, result.sort_id, r.sentiment)
    IN  IF NoReviews(n)
          THEN [r EXCEPT
                  !.log = Append(@, <<"no reviews", result.sort_id>>),
                  !.files = IF r.create_empty_files
                              THEN @ \cup {[name |-> filename, rows |-> 0]}
                              ELSE @]
        ELSE IF n = 0
          THEN [r EXCEPT !.pc = "raised", !.error = "IndexError"]
        ELSE [r EXCEPT !.files = @ \cup {[name |-> filename, rows |-> n]}]

\* amazon_scraper.py:725-741  one iteration of the loop over the results;
\* get_reviews at line 730 is not inside a try; driver.quit() follows the
\* last iteration.
ExportProduct ==
    /\ reviews.pc = "loop"
    /\ \E page \in ReviewPages :
        LET result == reviews.results[reviews.next]
            g == GetReviews(page)
            r == [reviews EXCEPT !.page = page]
            done == StoreReviews([r EXCEPT !.fetched = Append(@, g.reviews)],
                                 result, g.reviews)
        IN  reviews' =
                IF g.raised
                  THEN [r EXCEPT !.pc = "raised", !.error = g.error]
                ELSE IF done.pc = "raised" THEN done
                ELSE IF reviews.next = Len(reviews.results)
                  THEN [done EXCEPT !.pc = "returned", !.driver = "quit",
                                    !.next = @ + 1]
                ELSE [done EXCEPT !.next = @ + 1]
    /\ UNCHANGED <<retry, gate, path, store, dv, listing, run, flow, readiness>>

ReviewsNext == ExportOpen \/ ExportProduct

SpecReviews == ReviewsInit /\ [][ReviewsNext]_vars

ExportEnded == reviews.pc \in {"returned", "raised"}

\* The last review page fetched got ready and lacks the "All stars"
\* control or the control of the requested sentiment filter.
ControlMissing ==
    /\ reviews.page # NoPage
    /\ reviews.page.ready
    /\ ~reviews.page.all_stars \/ ~reviews.page.filter

\* C15: in the review sub-pipeline the absence of the "All stars" control
\* or of the requested sentiment-filter control is not fatal: get_reviews
\* logs it and yields no reviews for that product without raising, and
\* export_reviews goes on to the next product.
C15_MissingControlNonFatal ==
    ControlMissing =>
        /\ reviews.pc # "raised"
        /\ reviews.next = Len(reviews.fetched) + 1
        /\ reviews.fetched[Len(reviews.fetched)] = 0
        /\ reviews.log # << >>

\* What the code does for C15's case: get_reviews raises
\* NoSuchElementException for a missing "All stars" control and ValueError
\* for a missing sentiment filter, and export_reviews ends with that error
\* at that product, leaving the following products unexported.
C15_MissingControlRaises ==
    ControlMissing =>
        /\ reviews.pc = "raised"
        /\ reviews.error = IF ~reviews.page.all_stars
                             THEN "NoSuchElementException" ELSE "ValueError"
        /\ reviews.next = Len(reviews.fetched) + 1

\* C16: for every product whose review fetch for the requested sentiment
\* yields zero reviews while empty-file creation is enabled, export_reviews
\* has created an empty file at
\* {output_directory}/{sort_id}/{sort_id}_{sentiment}_reviews.csv, has
\* raised no error at that product and has gone on past it.
C16_EmptyFileForNoReviews ==
    ExportEnded \/ reviews.pc = "loop" =>
        \A i \in 1 .. Len(reviews.fetched) :
            reviews.fetched[i] = 0 /\ reviews.create_empty_files =>
                LET sid == reviews.results[i].sort_id
                IN  /\ [name |-> <<OutputDirectory, "/", sid, "/", sid, "_",
                                   reviews.sentiment, "_reviews.csv">>,
                        rows |-> 0] \in reviews.files
                    /\ reviews.next > i

\* Two products were exported with empty-file creation enabled: the first
\* had no reviews, the second had one.
C16_Witness ==
    /\ reviews.pc = "returned"
    /\ reviews.create_empty_files
    /\ reviews.fetched = <<0, 1>>
    /\ Cardinality(reviews.files) = 2
    /\ reviews.driver = "quit"

(***************************************************************************)
(*                        WORKFLOW                                         *)
(* scrape_workflow calls search_amazon, the side exports and one          *)
(* export_reviews per requested sentiment.  search_amazon is entered here *)
(* by its outcome (SearchOutcomes); its steps are those of SpecRun.       *)
(***************************************************************************)

\* Most sentiments in options["export_reviews"].
MaxExports == 2

\* amazon_scraper.py:529-583  how a call of search_amazon ends: an
\* exception leaves it with the session open, or it returns k records,
\* numbered 0001.., after driver.quit().
SearchOutcomes ==
    {[raised |-> TRUE, driver |-> "open", results |-> << >>]}
        \cup {[raised |-> FALSE, driver |-> "quit", results |-> ResultRecords(k)] :
                k \in 0 .. MaxProducts}

\* The outcome of a run of search_amazon that has ended.
SearchOutcomeOf(r) ==
    [raised |-> r.pc = "raised", driver |-> r.driver,
     results |-> IF r.pc = "raised" THEN << >>
                 ELSE [i \in 1 .. Len(r.search_results) |->
                          [asin |-> r.search_results[i].asin,
                           sort_id |-> r.search_results[i].sort_id]]]

\* Every ended run of SpecRun has an outcome of the shape of SearchOutcomes.
RunOutcomeShape ==
    RunEnded =>
        LET o == SearchOutcomeOf(run)
        IN  IF o.raised THEN o.driver = "open"
            ELSE o.driver = "quit" /\ o.results = ResultRecords(Len(o.results))

\* scrape_workflow(options, keyword, domain, force) is called.
WorkflowInit ==
    /\ \E f \in BOOLEAN, ex \in SeqsUpTo(Sentiments, MaxExports) :
        flow = [pc |-> "called", force |-> f, export_reviews |-> ex,
                results |-> << >>, search_driver |-> "none",
                review_drivers |-> << >>, stage |-> "setup", log |-> {},
                error |-> "none"]
    /\ reviews = Off
    /\ retry = Off /\ gate = Off /\ path = Off /\ store = Off /\ dv = Off
    /\ listing = Off /\ run = Off /\ readiness = Off

\* workflow.py:72-77  the catch-all of the try block: the error is logged
\* and scrape_workflow returns.
Caught(f, stage, error) ==
    [f EXCEPT !.pc = "returned", !.stage = stage, !.error = error,
              !.log = @ \cup {"ABORTED"}]

\* workflow.py:66-70  the next export_reviews call, or the end of the try
\* block.
NextExport(f) ==
    IF Len(f.review_drivers) < Len(f.export_reviews)
      THEN [f EXCEPT !.pc = "reviews"]
      ELSE [f EXCEPT !.pc = "returned", !.log = @ \cup {"Finished"}]

\* workflow.py:21-36  before the try block: the mandatory target folder is
\* resolved (ConfigValue.resolve raises when it is missing or no context is
\* built), and an earlier result folder ends the call unless force is set.
WorkflowSetup ==
    /\ flow.pc = "called"
    /\ \E resolved \in BOOLEAN, scraped \in BOOLEAN :
        flow' = IF ~resolved
                  THEN [flow EXCEPT !.pc = "raised", !.error = "ValueError"]
                ELSE IF scraped /\ ~flow.force
                  THEN [flow EXCEPT !.pc = "returned", !.log = @ \cup {"Skipping"}]
                ELSE [flow EXCEPT !.pc = "search"]
    /\ UNCHANGED <<retry, gate, path, store, dv, listing, run, reviews, readiness>>

\* workflow.py:40-50
WorkflowSearch ==
    /\ flow.pc = "search"
    /\ \E o \in SearchOutcomes :
        LET f == [flow EXCEPT !.search_driver = o.driver]
        IN  flow' = IF o.raised THEN Caught(f, "search", "Error")
                    ELSE IF Len(o.results) = 0
                      THEN [f EXCEPT !.pc = "returned",
                                     !.log = @ \cup {"No results"}]
                    ELSE [f EXCEPT !.pc = "exports", !.results = o.results]
    /\ UNCHANGED <<retry, gate, path, store, dv, listing, run, reviews, readiness>>

\* workflow.py:52-64  save_results and the image exports the options ask
\* for: all return, or one of them raises.
WorkflowSideExports ==
    /\ flow.pc = "exports"
    /\ \E ok \in BOOLEAN :
        flow' = IF ok THEN NextExport(flow)
                ELSE Caught(flow, "exports", "Error")
    /\ UNCHANGED <<retry, gate, path, store, dv, listing, run, reviews, readiness>>

\* workflow.py:66-68  export_reviews(results, output_directory,
\* sentiment=sentiment) is called.
WorkflowStartExport ==
    /\ flow.pc = "reviews"
    /\ reviews' = ExportCall(flow.results,
                             flow.export_reviews[Len(flow.review_drivers) + 1],
                             TRUE)
    /\ flow' = [flow EXCEPT !.pc = "reviewing"]
    /\ UNCHANGED <<retry, gate, path, store, dv, listing, run, readiness>>

\* workflow.py:68-73  export_reviews returns or raises into the catch-all.
WorkflowEndExport ==
    /\ flow.pc = "reviewing"
    /\ reviews.pc \in {"returned", "raised"}
    /\ LET f == [flow EXCEPT !.review_drivers = Append(@, reviews.driver)]
       IN  flow' = IF reviews.pc = "raised"
                     THEN Caught(f, "reviews", reviews.error)
                     ELSE NextExport(f)
    /\ UNCHANGED <<retry, gate, path, store, dv, listing, run, reviews, readiness>>

WorkflowNext ==
    \/ WorkflowSetup
    \/ WorkflowSearch
    \/ WorkflowSideExports
    \/ WorkflowStartExport
    \/ ExportOpen
    \/ ExportProduct
    \/ WorkflowEndExport

SpecWorkflow == WorkflowInit /\ [][WorkflowNext]_vars

\* From the side exports on, scrape_workflow passes the records of
\* search_amazon along as they are.
ExportsKeepRecords ==
    [][flow.pc \in {"exports", "reviews", "reviewing"}
          => flow'.results = flow.results]_vars

WorkflowEnded == flow.pc \in {"returned", "raised"}

\* C11: a run never raises to its caller: a failure in the workflow's own
\* setup, in the search (pagination discovery, candidate listing, deep
\* extraction) or in a side-channel export is logged and the run returns
\* normally.
C11_NeverRaises ==
    WorkflowEnded =>
        /\ flow.pc = "returned"
        /\ flow.error # "none" => "ABORTED" \in flow.log

\* What the code does for C11's case: failures inside the try block are
\* caught and logged; a failure of the setup before it leaves
\* scrape_workflow.
C11_RaisesOnlyFromSetup ==
    WorkflowEnded =>
        /\ flow.pc = "raised" => flow.stage = "setup" /\ flow.error = "ValueError"
        /\ flow.pc = "returned" /\ flow.error # "none" => "ABORTED" \in flow.log

\* C12: every browser session a run acquires, the search session of
\* search_amazon and the review session of export_reviews, has been
\* released with quit() when the run has ended, on whichever path it ended.
C12_SessionsReleased ==
    /\ RunEnded => run.driver # "open"
    /\ ExportEnded => reviews.driver # "open"

\* What the code does for C12's case: a session is released exactly on the
\* path that returns, and stays open on every path that raises after it
\* was acquired.
C12_ReleasedOnlyOnReturn ==
    /\ RunEnded => (run.driver = "quit" <=> run.pc = "returned")
    /\ RunEnded /\ run.pc = "raised" => run.driver = "open"
    /\ ExportEnded => (reviews.driver = "quit" <=> reviews.pc = "returned")
    /\ ExportEnded /\ reviews.pc = "raised" /\ reviews.results # << >>
          => reviews.driver = "open"

=============================================================================
